---- MODULE Spec2Model ----
(***************************************************************************)
(* State-machine model of the CryptoMark call relay:                       *)
(*   WebSocketManager  (backend websocket service, text of which is in     *)
(*                      src/src/ModelRegistry.sol lines 86-419),           *)
(*   RecordingService  (webb_app/backend/src/services/recording.ts),       *)
(*   VoiceDetector     (webb_app/backend/src/services/detector.ts),        *)
(* and of programs that share no state with it:                            *)
(*   the room-based signaling server (server.js, on socket.io),            *)
(*   the browser client (CallProvider, WebRTCService, WebSocketService),   *)
(*   the ModelRegistry contract (src/src/ModelRegistry.sol lines 1-84).    *)
(* One action per event-loop turn (a websocket event, a timer, the end of  *)
(* an ffmpeg child process); each action runs the handler to completion    *)
(* and then the promise reactions (microtasks) the handler made runnable.  *)
(***************************************************************************)
EXTENDS Integers, Sequences, FiniteSets, TLC

\* ---------------------------------------------------------------- bounds
NumUsers == 2       \* identities known to the auth store
MaxSockets == 2     \* authenticated connections accepted over a run
MaxCalls == 1       \* callIds minted over a run
MaxFrames == 1      \* binary frames dispatched to a recording over a run
MaxRecs == 1        \* ActiveRecording objects created over a run
MediaSockets == 2   \* the same, for the steps of NextMedia
MediaRecs == 2
MediaFrames == 1
AudioFrames == 3    \* frames, for the steps of NextTwoParty
FailFrames == 4     \* frames, for the steps of NextFailure
ExtraCalls == 1     \* callIds minted beyond MaxCalls, for the steps of NextOverlap
MaxDials == 2       \* calls a browser client initiates over a run
MaxResets == 2      \* reset timers a browser client has pending at a time
WsSockets == 3      \* WebSocket objects a browser client creates over a run
MaxTimers == 3      \* setInterval calls the detector makes over a run
PartySockets == 3   \* connections, for the steps of NextBystander
RoomSockets == 3    \* socket.io connections made to the signaling server over a run
NumRooms == 1       \* room names the clients type
NumAddrs == 2       \* accounts sending transactions to ModelRegistry
NumModels == 2      \* modelIds
MaxTime == 2        \* block timestamps

Users == 1..NumUsers
NoUser == 0         \* `to` absent from an envelope (undefined)
System == 0         \* from: 'system'
CallIds == 1..MaxCalls
NoCallId == 0       \* callId absent from an envelope
NoSocket == 0
RecorderKeys == 1..(MaxCalls + ExtraCalls)   \* callIds the recorder and the detector are told of
ClientCallId == MaxCalls + ExtraCalls + 1   \* a callId minted by a client (`call_${Date.now()}`), never one the router mints

VARIABLES
  sockets,              \* ws sockets of authenticated connections, in order of arrival
  clients,              \* WebSocketManager.clients   (Map, insertion ordered)
  activeCalls,          \* WebSocketManager.activeCalls
  nextCallId,           \* number of callIds minted so far, plus one
  accepted,             \* history: callIds of the sessions a call-accept has named
  startedBy,            \* history: callId -> sender of the recording-start that set the detector's timer, 0 = no timer
  recs,                 \* every ActiveRecording object created (live while a closure holds it)
  activeRecordings,     \* RecordingService.activeRecordings: callId -> index in recs, 0 = absent
  stops,                \* stopRecording calls suspended at `await recording.promiseChain`
  processingIntervals,  \* VoiceDetector.processingIntervals: callId -> speakerId of the timer, 0 = absent
  nextFrame,            \* number of frames dispatched so far, plus one (submission stamp)
  writeLog,             \* history: chunks in the order the recorder wrote them
  detLog,               \* history: processAudioChunk invocations in order
  last,                 \* history: the event handled by the last step, with the pre-state it saw
  out,                  \* history: socket.send calls made by the last step, in order
  ioSockets,            \* signaling server: ids of the connected socket.io sockets
  ioUsed,               \* signaling server: socket ids handed out so far (an id is never reused)
  rooms,                \* signaling server: io.sockets.adapter.rooms, room -> set of socket ids
  ioLast,               \* history: the socket.io event handled by the last step
  ioOut,                \* history: emits made by the last step, in order
  models,               \* ModelRegistry.models: modelId -> Model
  blockTimestamp,       \* block.timestamp of the block being built
  txLast,               \* history: the last transaction, and whether it reverted
  callState,            \* browser client of each user: CallProvider state (status, callId, remoteUser, isRecording)
  incomingCall,         \* browser client of each user: CallProvider incomingCall, callId 0 = null
  rtc,                  \* browser client of each user: WebRTCService currentCallId, remoteUserId, _isRecording
  resets,               \* browser client of each user: pending reset timeouts, oldest first; TRUE = a call was initiated or accepted since it was set
  negotiated,           \* history: the user's client has sent or received the answer of the call it is in
  dialed,               \* number of callIds the browser clients have minted
  wire,                 \* texts the browser clients have sent that the relay has not handled, oldest first
  wsSockets,            \* WebSocketService of one browser: readyState of every WebSocket it created
  wsSocket,             \* WebSocketService.socket: index in wsSockets, 0 = null
  wsToken,              \* WebSocketService.token is set
  reconnectAttempts,    \* WebSocketService.reconnectAttempts
  wsTimers,             \* pending setTimeout(createConnection) calls
  detMap,               \* VoiceDetector on its own: processingIntervals, callId -> timer id, 0 = absent
  detLive,              \* VoiceDetector on its own: the setInterval timers not cleared
  detMade,              \* VoiceDetector on its own: number of setInterval calls so far
  detStopped,           \* history: callIds stopped and not started since
  detLast               \* history: the last call or timer callback of the detector

\* the state of the call relay
RelayVars == <<sockets, clients, activeCalls, nextCallId, accepted, startedBy, recs, activeRecordings, stops,
               processingIntervals, nextFrame, writeLog, detLog, last, out>>

\* the state of the signaling server
RoomVars == <<ioSockets, ioUsed, rooms, ioLast, ioOut>>

\* the state of the contract
ChainVars == <<models, blockTimestamp, txLast>>

\* the state of the browser clients
ClientVars == <<callState, incomingCall, rtc, resets, negotiated, dialed, wire>>

\* the state of a browser's WebSocketService
WsVars == <<wsSockets, wsSocket, wsToken, reconnectAttempts, wsTimers>>

\* the state of the detector, timers included
DetVars == <<detMap, detLive, detMade, detStopped, detLast>>

\* what no handler of the call relay touches
Elsewhere == <<RoomVars, ChainVars, ClientVars, WsVars, DetVars>>

vars == <<RelayVars, RoomVars, ChainVars, ClientVars, WsVars, DetVars>>

\* ------------------------------------------------------- connection registry
\* clients.get(userId): the registered socket, NoSocket when absent
ClientsGet(cl, u) ==
  IF \E i \in DOMAIN cl : cl[i].userId = u
    THEN (cl[CHOOSE i \in DOMAIN cl : cl[i].userId = u]).socket
    ELSE NoSocket

\* clients.set(userId, client): a new key goes last, an existing key keeps its place
ClientsSet(cl, u, s) ==
  IF \E i \in DOMAIN cl : cl[i].userId = u
    THEN [i \in DOMAIN cl |-> IF cl[i].userId = u THEN [userId |-> u, socket |-> s] ELSE cl[i]]
    ELSE Append(cl, [userId |-> u, socket |-> s])

\* a delete that leaves the Map as it is
ClientsDelete_Kept(cl, u) == cl

\* clients.delete(userId)
ClientsDelete(cl, u) == SelectSeq(cl, LAMBDA e : e.userId # u)

ClientKeys(cl) == {cl[i].userId : i \in DOMAIN cl}

\* isUserOnline(userId)
isUserOnline(u) == u \in ClientKeys(clients)

\* socket.readyState === WebSocket.OPEN
IsOpen(socks, s) == s # NoSocket /\ socks[s].readyState = "OPEN"

\* ------------------------------------------------------------- messages
\* payload: the text of the envelope's payload member, for the relayed types
NoPayload == "undefined"

Msg(s, type, from, to, callId, reason, speakerId, list) ==
  [socket |-> s, type |-> type, from |-> from, to |-> to, callId |-> callId,
   reason |-> reason, speakerId |-> speakerId, users |-> list, payload |-> NoPayload]

\* sendToClient without the readyState test
sendToClient_NoReadyStateCheck(cl, socks, u, type, from, callId, reason, speakerId) ==
  LET s == ClientsGet(cl, u)
  IN IF s # NoSocket
       THEN <<Msg(s, type, from, u, callId, reason, speakerId, {})>>
       ELSE <<>>

\* sendToClient(userId, message): the sends it makes (none or one)
sendToClient(cl, socks, u, type, from, callId, reason, speakerId) ==
  LET s == ClientsGet(cl, u)
  IN IF IsOpen(socks, s)
       THEN <<Msg(s, type, from, u, callId, reason, speakerId, {})>>
       ELSE <<>>

\* the broadcast whose lists are not filtered
RECURSIVE BroadcastFrom_WithSelf(_, _, _)
BroadcastFrom_WithSelf(cl, socks, i) ==
  IF i > Len(cl) THEN <<>>
  ELSE (IF IsOpen(socks, cl[i].socket)
          THEN <<Msg(cl[i].socket, "online-users", System, cl[i].userId, NoCallId, "",
                     NoUser, ClientKeys(cl))>>
          ELSE <<>>) \o BroadcastFrom_WithSelf(cl, socks, i + 1)

\* broadcastOnlineUsers(): one online-users message per registered open socket,
\* in Map order, listing every registered identity but the recipient
RECURSIVE BroadcastFrom(_, _, _)
BroadcastFrom(cl, socks, i) ==
  IF i > Len(cl) THEN <<>>
  ELSE (IF IsOpen(socks, cl[i].socket)
          THEN <<Msg(cl[i].socket, "online-users", System, cl[i].userId, NoCallId, "",
                     NoUser, ClientKeys(cl) \ {cl[i].userId})>>
          ELSE <<>>) \o BroadcastFrom(cl, socks, i + 1)

broadcastOnlineUsers(cl, socks) == BroadcastFrom(cl, socks, 1)

\* payload texts a client may write: no member, a string (an SDP), a number
\* literal beyond the range of a double
Payloads == {NoPayload, "'v=0'", "1e999"}

\* JSON.parse of the payload member: a number beyond the range reads as Infinity
JSONparse(text) == IF text = "1e999" THEN "Infinity" ELSE text

\* JSON.stringify of the payload member: Infinity is written as null
JSONstringify(value) == IF value = "Infinity" THEN "null" ELSE value

\* ------------------------------------------------------------- history
NoSession ==
  [exists |-> FALSE, callerId |-> NoUser, calleeId |-> NoUser, recording |-> FALSE,
   accepted |-> FALSE]

\* the session the envelope's callId names, as the handler finds it
SnapCall(c) ==
  IF c \in DOMAIN activeCalls
    THEN [exists |-> TRUE, callerId |-> activeCalls[c].callerId,
          calleeId |-> activeCalls[c].calleeId, recording |-> activeCalls[c].recording,
          accepted |-> c \in accepted]
    ELSE NoSession

\* the registry entry of an identity, as the handler finds it
SnapTarget(u) ==
  IF ClientsGet(clients, u) = NoSocket THEN "absent"
  ELSE IF IsOpen(sockets, ClientsGet(clients, u)) THEN "open" ELSE "stale"

\* type, socket, userId, to, callId: the event and the connection it came in
\* on; sessions, call, target, sender: what the handler found; code: the
\* close code of a refused connection; speakerId: that of a detection result;
\* token: what a refused connection presented; from, payload: the members of
\* a relayed envelope as the client wrote them
Event(type, s, to, c) ==
  [type |-> type, socket |-> s,
   userId |-> IF s = NoSocket THEN NoUser ELSE sockets[s].userId,
   to |-> to, callId |-> c, sessions |-> DOMAIN activeCalls, call |-> SnapCall(c),
   target |-> SnapTarget(to),
   sender |-> IF s = NoSocket THEN "absent" ELSE SnapTarget(sockets[s].userId),
   code |-> 0, speakerId |-> NoUser, token |-> "", from |-> NoUser, payload |-> NoPayload]

\* ---------------------------------------------------------- session table
\* activeCalls.set(callId, {...}): a new key is added, an existing one overwritten
CallsSet(ac, c, v) == [k \in DOMAIN ac \cup {c} |-> IF k = c THEN v ELSE ac[k]]

\* the session with the two parties exchanged
NewSession_Swapped(u, to) == [callerId |-> to, calleeId |-> u, recording |-> FALSE]

\* { callerId: client.userId, calleeId: message.to, recording: false }
NewSession(u, to) == [callerId |-> u, calleeId |-> to, recording |-> FALSE]

\* a delete that leaves the Map as it is
CallsDelete_Kept(ac, c) == ac

\* activeCalls.delete(callId)
CallsDelete(ac, c) == [k \in DOMAIN ac \ {c} |-> ac[k]]

\* the ternary with its branches exchanged
remoteSpeakerId_Swapped(call, u) == IF call.callerId = u THEN call.callerId ELSE call.calleeId

\* const remoteSpeakerId = call.callerId === client.userId ? call.calleeId : call.callerId
remoteSpeakerId(call, u) == IF call.callerId = u THEN call.calleeId ELSE call.callerId

\* ------------------------------------------------------ recording service
\* The recorder's part of the state, passed through the operators below.
RecState == [recs |-> recs, active |-> activeRecordings, stops |-> stops, log |-> writeLog]

\* the promise a chain task returns settles: the chunk leaves the chain, and
\* every suspended stopRecording that awaited it has one task less to wait for
TaskSettled(st, r, written) ==
  [st EXCEPT
     !.recs[r] = [@ EXCEPT !.pending = Tail(@), !.running = FALSE,
                           !.fileIndex = IF written THEN @ + 1 ELSE @],
     !.stops = {IF p.rec = r /\ p.remaining > 0
                  THEN [p EXCEPT !.remaining = @ - 1] ELSE p : p \in @}]

\* Runs the promise reactions that are ready, until none is:
\*  - stopRecording resumes after `await recording.promiseChain` and deletes
\*    the Map entry of its callId (whatever object the entry holds by then);
\*  - the next task of a chain starts: a chunk under 100 bytes returns at
\*    once; for any other, writeFileSync throws and the task's catch logs it,
\*    or the chunk is written to disk and ffmpeg is spawned (running).
RECURSIVE RunMicrotasks(_)
RunMicrotasks(st) ==
  LET ready == {p \in st.stops : p.remaining = 0}
      startable == {r \in DOMAIN st.recs : st.recs[r].pending # <<>> /\ ~st.recs[r].running}
  IN IF ready # {}
       THEN LET p == CHOOSE q \in ready : TRUE
            IN RunMicrotasks([st EXCEPT !.stops = @ \ {p},
                                        !.active[st.recs[p.rec].callId] = 0])
     ELSE IF startable # {}
       THEN LET r == CHOOSE q \in startable : TRUE
                f == Head(st.recs[r].pending)
            IN IF f.small \/ f.throws
                 THEN RunMicrotasks(TaskSettled(st, r, FALSE))
                 ELSE RunMicrotasks([st EXCEPT
                        !.recs[r].running = TRUE,
                        !.log = Append(@, [callId |-> st.recs[r].callId, rec |-> r, id |-> f.id])])
     ELSE st

\* recordingService.startRecording(callId, speakerId): a new ActiveRecording
\* with promiseChain = Promise.resolve() replaces the Map entry
startRecording(st, c, speaker) ==
  [st EXCEPT
     !.recs = Append(@, [callId |-> c, speakerId |-> speaker, pending |-> <<>>,
                         running |-> FALSE, fileIndex |-> 0]),
     !.active[c] = Len(st.recs) + 1]

\* recordingService.writeChunk(callId, audioData): no entry, no effect;
\* otherwise the task is chained on the entry's promiseChain
writeChunk(st, c, f) ==
  IF st.active[c] = 0 THEN st
  ELSE [st EXCEPT !.recs[st.active[c]].pending = Append(@, f)]

\* stopRecording that returns without touching the Map
stopRecording_Skipped(st, c) == st

\* recordingService.stopRecording(callId): no entry, returns null; otherwise
\* suspends on the entry's promiseChain as it is now
stopRecording(st, c) ==
  IF st.active[c] = 0 THEN st
  ELSE [st EXCEPT !.stops = @ \cup {[rec |-> st.active[c],
                                     remaining |-> Len(st.recs[st.active[c]].pending)]}]

\* ---------------------------------------------------------- voice detector
\* a stop that leaves the timer running
stopProcessing_Kept(pi, c) == pi

\* voiceDetector.stopProcessing(callId)
stopProcessing(pi, c) == [pi EXCEPT ![c] = NoUser]

\* voiceDetector.startProcessing(callId, speakerId): stops, then a new timer
startProcessing(pi, c, speaker) == [stopProcessing(pi, c) EXCEPT ![c] = speaker]

SetRecorder(st) ==
  /\ recs' = st.recs
  /\ activeRecordings' = st.active
  /\ stops' = st.stops
  /\ writeLog' = st.log

RecorderVars == <<recs, activeRecordings, stops, writeLog>>

\* ------------------------------------------------- signaling server state
SocketIds == 1..RoomSockets

\* keys of adapter.rooms: the names clients ask for, and the id of every
\* socket (socket.io puts each socket in a room named by its own id)
RoomNames == [kind : {"name"}, n : 1..NumRooms]
OwnRoom(s) == [kind |-> "id", n |-> s]
RoomKeys == RoomNames \cup {OwnRoom(s) : s \in SocketIds}
NoRoom == [kind |-> "none", n |-> 0]

\* io = new Server(server): nobody connected, no room.  A room without
\* members is absent from adapter.rooms; it is the empty set here.
RoomsInit ==
  /\ ioSockets = {}
  /\ ioUsed = {}
  /\ rooms = [r \in RoomKeys |-> {}]
  /\ ioLast = [type |-> "init", socket |-> NoSocket, room |-> NoRoom, numClients |-> 0]
  /\ ioOut = <<>>

\* ------------------------------------------------------- contract state
ZeroAddress == 0    \* address(0)
Addrs == 1..NumAddrs           \* msg.sender of a transaction, never address(0)
ModelIds == 1..NumModels
ACTIVE == 1
REVOKED == 2
Hashes == {0, 1}               \* wmSpecHash arguments
Uris == {"", "ipfs://m"}       \* uri arguments
StatusArgs == {0, ACTIVE, REVOKED, 3, 255}    \* uint8 status arguments

\* the value a mapping has at a key never written
NoModel == [owner |-> ZeroAddress, status |-> 0, wmSpecHash |-> 0, uri |-> "", createdAt |-> 0]

\* the contract as deployed
ChainInit ==
  /\ models = [m \in ModelIds |-> NoModel]
  /\ blockTimestamp = 1
  /\ txLast = [fn |-> "deploy", sender |-> ZeroAddress, modelId |-> 0, status |-> 0,
               wmSpecHash |-> 0, uri |-> "", reverted |-> FALSE]

\* --------------------------------------------------- browser client state
NoIncoming == [callId |-> NoCallId, caller |-> NoUser]

\* CallProvider and WebRTCService as constructed
ClientInit ==
  /\ callState = [u \in Users |-> [status |-> "idle", callId |-> NoCallId, remoteUser |-> NoUser,
                                    isRecording |-> FALSE]]
  /\ incomingCall = [u \in Users |-> NoIncoming]
  /\ rtc = [u \in Users |-> [currentCallId |-> NoCallId, remoteUserId |-> NoUser,
                              isRecording |-> FALSE]]
  /\ resets = [u \in Users |-> <<>>]
  /\ negotiated = [u \in Users |-> FALSE]
  /\ dialed = 0
  /\ wire = <<>>

\* new WebSocketService()
WsInit ==
  /\ wsSockets = <<>>
  /\ wsSocket = NoSocket
  /\ wsToken = FALSE
  /\ reconnectAttempts = 0
  /\ wsTimers = 0

\* new VoiceDetector()
DetInit ==
  /\ detMap = [c \in RecorderKeys |-> 0]
  /\ detLive = {}
  /\ detMade = 0
  /\ detStopped = {}
  /\ detLast = [op |-> "init", callId |-> NoCallId, speakerId |-> NoUser]

Init ==
  /\ DetInit
  /\ RoomsInit
  /\ ChainInit
  /\ ClientInit
  /\ WsInit
  /\ sockets = <<>>
  /\ clients = <<>>
  /\ activeCalls = [c \in {} |-> NoSession]
  /\ nextCallId = 1
  /\ accepted = {}
  /\ startedBy = [c \in RecorderKeys |-> NoUser]
  /\ recs = <<>>
  /\ activeRecordings = [c \in RecorderKeys |-> 0]
  /\ stops = {}
  /\ processingIntervals = [c \in RecorderKeys |-> NoUser]
  /\ nextFrame = 1
  /\ writeLog = <<>>
  /\ detLog = <<>>
  /\ last = [type |-> "init", socket |-> NoSocket, userId |-> NoUser, to |-> NoUser,
             callId |-> NoCallId, sessions |-> {}, call |-> NoSession, target |-> "absent",
             sender |-> "absent", code |-> 0, speakerId |-> NoUser, token |-> "",
             from |-> NoUser, payload |-> NoPayload]
  /\ out = <<>>

\* ------------------------------------------------------------- actions
\* the token of the connection URL: absent, or one verifyToken throws on
NoToken == ""
BadToken == "invalid"

\* every refusal closes with 4001
CloseCode_Same(token) == 4001

\* socket.close(4001, 'No token provided') / socket.close(4002, 'Invalid token')
CloseCode(token) == IF token = NoToken THEN 4001 ELSE 4002

Idle(s) == s \in DOMAIN sockets /\ sockets[s].readyState = "OPEN"

\* wss.on('connection') with a token that verifies: register, broadcast, attach listeners
Connect(u) ==
  /\ LET s == Len(sockets) + 1
         socks == Append(sockets, [userId |-> u, readyState |-> "OPEN", removed |-> FALSE])
         cl == ClientsSet(clients, u, s)
     IN /\ sockets' = socks
        /\ clients' = cl
        /\ out' = broadcastOnlineUsers(cl, socks)
        /\ last' = [Event("connection", NoSocket, u, NoCallId) EXCEPT !.socket = s, !.userId = u]
  /\ UNCHANGED <<Elsewhere, startedBy, accepted, activeCalls, nextCallId, RecorderVars, processingIntervals, nextFrame, detLog>>

\* wss.on('connection') without a token (close 4001) or with one that does
\* not verify (close 4002): nothing is registered, no listener is attached
ConnectRefused(token) ==
  /\ last' = [Event("connection-refused", NoSocket, NoUser, NoCallId)
                EXCEPT !.token = token, !.code = CloseCode(token)]
  /\ out' = <<>>
  /\ UNCHANGED <<Elsewhere, startedBy, accepted, sockets, clients, activeCalls, nextCallId, RecorderVars,
                 processingIntervals, nextFrame, detLog>>

\* the channel stops being writable (readyState leaves OPEN) before its
\* 'close' event is dispatched
SocketNotOpen(s) ==
  /\ Idle(s)
  /\ sockets' = [sockets EXCEPT ![s].readyState = "CLOSING"]
  /\ last' = Event("not-open", s, NoUser, NoCallId)
  /\ out' = <<>>
  /\ UNCHANGED <<Elsewhere, startedBy, accepted, clients, activeCalls, nextCallId, RecorderVars,
                 processingIntervals, nextFrame, detLog>>

\* socket.on('close'): clients.delete(payload.userId); broadcastOnlineUsers()
SocketClose(s) ==
  /\ s \in DOMAIN sockets
  /\ sockets[s].readyState # "CLOSED"
  /\ LET u == sockets[s].userId
         socks == [sockets EXCEPT ![s].readyState = "CLOSED", ![s].removed = TRUE]
         cl == ClientsDelete(clients, u)
     IN /\ sockets' = socks
        /\ clients' = cl
        /\ out' = broadcastOnlineUsers(cl, socks)
  /\ last' = Event("close", s, NoUser, NoCallId)
  /\ UNCHANGED <<Elsewhere, startedBy, accepted, activeCalls, nextCallId, RecorderVars, processingIntervals, nextFrame, detLog>>

\* handleCallRequest(client, message); minted: the callId that
\* `call_${Date.now()}_${Math.random()...}` yields
handleCallRequest(s, to, c, minted) ==
  /\ Idle(s)
  /\ last' = Event("call-request", s, to, c)
  /\ LET u == sockets[s].userId
         target == ClientsGet(clients, to)
     IN IF target = NoSocket
          THEN /\ out' = sendToClient(clients, sockets, u, "call-reject", System, NoCallId,
                                      "User is offline", NoUser)
               /\ UNCHANGED <<sockets, clients, activeCalls, nextCallId>>
        ELSE IF ~IsOpen(sockets, target)
          THEN LET cl == ClientsDelete(clients, to)
               IN /\ clients' = cl
                  /\ sockets' = [sockets EXCEPT ![target].removed = TRUE]
                  /\ out' = broadcastOnlineUsers(cl, sockets)
                            \o sendToClient(cl, sockets, u, "call-reject", System, NoCallId,
                                            "User appears offline", NoUser)
                  /\ UNCHANGED <<activeCalls, nextCallId>>
        ELSE /\ activeCalls' = CallsSet(activeCalls, minted, NewSession(u, to))
             /\ nextCallId' = IF minted = nextCallId THEN nextCallId + 1 ELSE nextCallId
             /\ out' = sendToClient(clients, sockets, to, "call-request", u, minted,
                                    "", NoUser)
             /\ UNCHANGED <<sockets, clients>>
  /\ UNCHANGED <<Elsewhere, startedBy, accepted, RecorderVars, processingIntervals, nextFrame, detLog>>

\* the message relayed as the client wrote it
WithSender_Kept(message, userId) == message

\* { ...message, from: client.userId }
WithSender(message, userId) == [message EXCEPT !.from = userId]

\* sendToClient(message.to, { ...message, from: client.userId }), the message
\* being JSON.parse of the text received and the text sent JSON.stringify of it
Relay(s, type, to, c, from, p) ==
  /\ Idle(s)
  /\ last' = [Event(type, s, to, c) EXCEPT !.from = from, !.payload = p]
  /\ LET message == [type |-> type, from |-> from, to |-> to, callId |-> c,
                     payload |-> JSONparse(p)]
         fwd == WithSender(message, sockets[s].userId)
         sent == sendToClient(clients, sockets, fwd.to, fwd.type, fwd.from, fwd.callId,
                              "", NoUser)
     IN out' = [i \in DOMAIN sent |-> [sent[i] EXCEPT !.payload = JSONstringify(fwd.payload)]]
  /\ UNCHANGED <<Elsewhere, startedBy, sockets, clients, activeCalls, nextCallId, RecorderVars,
                 processingIntervals, nextFrame, detLog>>

\* handleCallAccept(client, message): the session table is not read
handleCallAccept(s, to, c) ==
  /\ Relay(s, "call-accept", to, c, sockets[s].userId, NoPayload)
  /\ accepted' = IF c \in DOMAIN activeCalls THEN accepted \cup {c} ELSE accepted

\* forwardSignaling(client, message)
forwardSignaling(s, type, to, c, from, p) ==
  /\ Relay(s, type, to, c, from, p)
  /\ UNCHANGED accepted

\* handleCallReject(client, message)
handleCallReject(s, to, c) ==
  /\ Idle(s)
  /\ last' = Event("call-reject", s, to, c)
  /\ activeCalls' = IF c # NoCallId THEN CallsDelete(activeCalls, c) ELSE activeCalls
  /\ out' = sendToClient(clients, sockets, to, "call-reject", sockets[s].userId, c, "", NoUser)
  /\ accepted' = accepted \ {c}
  /\ UNCHANGED <<Elsewhere, startedBy, sockets, clients, nextCallId, RecorderVars,
                 processingIntervals, nextFrame, detLog>>

\* handleCallEnd(client, message)
handleCallEnd(s, to, c) ==
  /\ Idle(s)
  /\ last' = Event("call-end", s, to, c)
  /\ LET stopping == c \in DOMAIN activeCalls /\ activeCalls[c].recording
     IN /\ SetRecorder(RunMicrotasks(IF stopping THEN stopRecording(RecState, c) ELSE RecState))
        /\ processingIntervals' = IF stopping THEN stopProcessing(processingIntervals, c)
                                              ELSE processingIntervals
        /\ startedBy' = IF stopping THEN stopProcessing(startedBy, c) ELSE startedBy
  /\ activeCalls' = IF c # NoCallId THEN CallsDelete(activeCalls, c) ELSE activeCalls
  /\ out' = sendToClient(clients, sockets, to, "call-end", sockets[s].userId, c, "", NoUser)
  /\ accepted' = accepted \ {c}
  /\ UNCHANGED <<Elsewhere, sockets, clients, nextCallId, nextFrame, detLog>>

\* handleRecordingStart(client, message): message.to is not read
handleRecordingStart(s, c) ==
  /\ Idle(s)
  /\ last' = Event("recording-start", s, NoUser, c)
  /\ IF c = NoCallId \/ c \notin DOMAIN activeCalls
       THEN /\ out' = <<>>
            /\ UNCHANGED <<activeCalls, RecorderVars, processingIntervals, startedBy>>
       ELSE LET call == activeCalls[c]
                speaker == remoteSpeakerId(call, sockets[s].userId)
            IN /\ activeCalls' = [activeCalls EXCEPT ![c].recording = TRUE]
               /\ SetRecorder(RunMicrotasks(startRecording(RecState, c, speaker)))
               /\ processingIntervals' = startProcessing(processingIntervals, c, speaker)
               /\ startedBy' = startProcessing(startedBy, c, sockets[s].userId)
               /\ out' = sendToClient(clients, sockets, call.callerId, "recording-start",
                                      System, c, "", NoUser)
                         \o sendToClient(clients, sockets, call.calleeId, "recording-start",
                                         System, c, "", NoUser)
  /\ UNCHANGED <<Elsewhere, accepted, sockets, clients, nextCallId, nextFrame, detLog>>

\* handleRecordingStop(client, message): message.to is not read
handleRecordingStop(s, c) ==
  /\ Idle(s)
  /\ last' = Event("recording-stop", s, NoUser, c)
  /\ IF c = NoCallId \/ c \notin DOMAIN activeCalls
       THEN /\ out' = <<>>
            /\ UNCHANGED <<activeCalls, RecorderVars, processingIntervals, startedBy>>
       ELSE LET call == activeCalls[c]
            IN /\ activeCalls' = [activeCalls EXCEPT ![c].recording = FALSE]
               /\ SetRecorder(RunMicrotasks(stopRecording(RecState, c)))
               /\ processingIntervals' = stopProcessing(processingIntervals, c)
               /\ startedBy' = stopProcessing(startedBy, c)
               /\ out' = sendToClient(clients, sockets, call.callerId, "recording-stop",
                                      System, c, "", NoUser)
                         \o sendToClient(clients, sockets, call.calleeId, "recording-stop",
                                         System, c, "", NoUser)
  /\ UNCHANGED <<Elsewhere, accepted, sockets, clients, nextCallId, nextFrame, detLog>>

\* handleMessage: text that does not parse, or a type the switch does not know
handleMessageDropped(s) ==
  /\ Idle(s)
  /\ last' = Event("dropped", s, NoUser, NoCallId)
  /\ out' = <<>>
  /\ UNCHANGED <<Elsewhere, startedBy, accepted, sockets, clients, activeCalls, nextCallId, RecorderVars,
                 processingIntervals, nextFrame, detLog>>

\* the loop without the test of call.recording
AudioMatches_NotRecording(u) ==
  {c \in DOMAIN activeCalls : activeCalls[c].callerId = u \/ activeCalls[c].calleeId = u}

\* the sessions handleAudioData's loop stops at: recording, with the client a party
AudioMatches(u) ==
  {c \in DOMAIN activeCalls :
     activeCalls[c].recording /\ (activeCalls[c].callerId = u \/ activeCalls[c].calleeId = u)}

\* handleAudioData(client, audioData): the first match in Map order (callIds
\* are inserted in the order they are minted)
\* small: under 100 bytes; throws: writeFileSync will fail on the chunk
handleAudioData(s, small, throws) ==
  /\ Idle(s)
  /\ last' = Event("audio", s, NoUser, NoCallId)
  /\ out' = <<>>
  /\ LET u == sockets[s].userId
     IN IF AudioMatches(u) = {}
          THEN UNCHANGED <<RecorderVars, nextFrame, detLog>>
          ELSE LET c == CHOOSE k \in AudioMatches(u) : \A j \in AudioMatches(u) : k <= j
                   f == [id |-> nextFrame, small |-> small, throws |-> throws]
               IN /\ nextFrame' = nextFrame + 1
                  /\ SetRecorder(RunMicrotasks(writeChunk(RecState, c, f)))
                  /\ detLog' = Append(detLog, [callId |-> c,
                                  speakerId |-> remoteSpeakerId(activeCalls[c], u),
                                  id |-> f.id, throws |-> throws /\ ~small])
  /\ UNCHANGED <<Elsewhere, startedBy, accepted, sockets, clients, activeCalls, nextCallId, processingIntervals>>

\* execAsync(ffmpeg) of the running task of a chain ends (with or without an
\* error, convertRawToWav catches it): fileIndex++, the task's promise settles
ExecDone(r) ==
  /\ r \in DOMAIN recs
  /\ recs[r].running
  /\ SetRecorder(RunMicrotasks(TaskSettled(RecState, r, TRUE)))
  /\ last' = Event("exec-done", NoSocket, NoUser, recs[r].callId)
  /\ out' = <<>>
  /\ UNCHANGED <<Elsewhere, startedBy, accepted, sockets, clients, activeCalls, nextCallId, processingIntervals,
                 nextFrame, detLog>>

\* the result sent without looking the session up
sendDetectionResult_Unchecked(c, speaker) ==
  IF c \notin DOMAIN activeCalls
    THEN broadcastOnlineUsers(clients, sockets)
    ELSE sendToClient(clients, sockets, speaker, "detection-result", System, c, "", speaker)

\* sendDetectionResult(result)
sendDetectionResult(c, speaker) ==
  IF c \notin DOMAIN activeCalls THEN <<>>
  ELSE LET call == activeCalls[c]
           recipientId == IF speaker = call.callerId THEN call.calleeId ELSE call.callerId
       IN sendToClient(clients, sockets, recipientId, "detection-result", System, c, "", speaker)

\* the setInterval callback of startProcessing fires: emit('result', ...)
DetectorTick(c) ==
  /\ processingIntervals[c] # NoUser
  /\ last' = [Event("result", NoSocket, NoUser, c) EXCEPT !.speakerId = processingIntervals[c]]
  /\ out' = sendDetectionResult(c, processingIntervals[c])
  /\ UNCHANGED <<Elsewhere, startedBy, accepted, sockets, clients, activeCalls, nextCallId, RecorderVars,
                 processingIntervals, nextFrame, detLog>>

Targets == Users \cup {NoUser}
NamedCalls == CallIds \cup {NoCallId}

\* The exploration stops short of a step that would accept one connection,
\* mint one callId, create one ActiveRecording or dispatch one frame too many.
Within(ms, mc, mr, mf) ==
  /\ Len(sockets') <= ms
  /\ nextCallId' <= mc + 1
  /\ Len(recs') <= mr
  /\ nextFrame' <= mf + 1

InBounds == Within(MaxSockets, MaxCalls, MaxRecs, MaxFrames)

Next ==
  \/ \E u \in Users : Connect(u) /\ InBounds
  \/ \E token \in {NoToken, BadToken} : ConnectRefused(token)
  \/ \E s \in DOMAIN sockets : SocketNotOpen(s)
  \/ \E s \in DOMAIN sockets : SocketClose(s)
  \/ \E s \in DOMAIN sockets, to \in Targets, c \in {NoCallId, ClientCallId} :
        handleCallRequest(s, to, c, nextCallId) /\ InBounds
  \/ \E s \in DOMAIN sockets, to \in Targets, c \in NamedCalls : handleCallAccept(s, to, c)
  \/ \E s \in DOMAIN sockets, to \in Targets, c \in NamedCalls : handleCallReject(s, to, c)
  \/ \E s \in DOMAIN sockets, to \in Targets, c \in NamedCalls : handleCallEnd(s, to, c)
  \/ \E s \in DOMAIN sockets, to \in Targets, c \in NamedCalls,
        type \in {"offer", "answer", "ice-candidate"} :
        forwardSignaling(s, type, to, c, sockets[s].userId, NoPayload)
  \/ \E s \in DOMAIN sockets, c \in NamedCalls : handleRecordingStart(s, c) /\ InBounds
  \/ \E s \in DOMAIN sockets, c \in NamedCalls : handleRecordingStop(s, c)
  \/ \E s \in DOMAIN sockets : handleMessageDropped(s)
  \/ \E s \in DOMAIN sockets, small \in BOOLEAN : handleAudioData(s, small, FALSE) /\ InBounds
  \/ \E r \in DOMAIN recs : ExecDone(r)
  \/ \E c \in CallIds : DetectorTick(c)

Spec == Init /\ [][Next]_vars

\* The steps that change the program's state. The steps left out (relays,
\* dropped messages, refused connections, envelopes without a callId where
\* the handler needs one) change no program variable, so the
\* program states reached are those of Next; the bounds can then be wider.
InMediaBounds == Within(MediaSockets, MaxCalls, MediaRecs, MediaFrames)

NextMedia ==
  \/ \E u \in Users : Connect(u) /\ InMediaBounds
  \/ \E s \in DOMAIN sockets : SocketNotOpen(s)
  \/ \E s \in DOMAIN sockets : SocketClose(s)
  \/ \E s \in DOMAIN sockets, to \in Targets :
        handleCallRequest(s, to, NoCallId, nextCallId) /\ InMediaBounds
  \/ \E s \in DOMAIN sockets, c \in CallIds : handleCallReject(s, NoUser, c)
  \/ \E s \in DOMAIN sockets, c \in CallIds : handleCallEnd(s, NoUser, c)
  \/ \E s \in DOMAIN sockets, c \in CallIds : handleRecordingStart(s, c) /\ InMediaBounds
  \/ \E s \in DOMAIN sockets, c \in CallIds : handleRecordingStop(s, c)
  \/ \E s \in DOMAIN sockets, small \in BOOLEAN : handleAudioData(s, small, FALSE) /\ InMediaBounds
  \/ \E r \in DOMAIN recs : ExecDone(r)
  \/ \E c \in CallIds : DetectorTick(c)

SpecMedia == Init /\ [][NextMedia]_vars

\* Calls between two distinct identities whose connections stay up: the
\* steps a client takes to call, record, send audio and hang up. Every
\* behaviour of SpecTwoParty is a behaviour of the relay, so what fails here
\* fails there.
InAudioBounds == Within(MediaSockets, MaxCalls, MediaRecs, AudioFrames)

NextTwoParty ==
  \/ \E u \in Users : Connect(u) /\ InAudioBounds
  \/ \E s \in DOMAIN sockets : \E to \in Users \ {sockets[s].userId} :
        handleCallRequest(s, to, NoCallId, nextCallId) /\ InAudioBounds
  \/ \E s \in DOMAIN sockets, c \in CallIds : handleCallReject(s, NoUser, c)
  \/ \E s \in DOMAIN sockets, c \in CallIds : handleRecordingStart(s, c) /\ InAudioBounds
  \/ \E s \in DOMAIN sockets, small \in BOOLEAN : handleAudioData(s, small, FALSE) /\ InAudioBounds
  \/ \E r \in DOMAIN recs : ExecDone(r)

SpecTwoParty == Init /\ [][NextTwoParty]_vars

\* One call between two distinct identities whose connections stay up, with
\* frames of full size on some of which the write to disk fails.
InFailureBounds == Within(MediaSockets, MaxCalls, MediaRecs, FailFrames)

NextFailure ==
  \/ \E u \in Users : Connect(u) /\ InFailureBounds
  \/ \E s \in DOMAIN sockets : \E to \in Users \ {sockets[s].userId} :
        handleCallRequest(s, to, NoCallId, nextCallId) /\ InFailureBounds
  \/ \E s \in DOMAIN sockets, c \in CallIds : handleRecordingStart(s, c) /\ InFailureBounds
  \/ \E s \in DOMAIN sockets, throws \in BOOLEAN :
        handleAudioData(s, FALSE, throws) /\ InFailureBounds
  \/ \E r \in DOMAIN recs : ExecDone(r)

SpecFailure == Init /\ [][NextFailure]_vars

\* Call set-up where the callId the router mints may be one it minted
\* before (the same millisecond, the same random suffix).
MintedIds == {nextCallId} \cup DOMAIN activeCalls

NextCollision ==
  \/ \E u \in Users : Connect(u) /\ InMediaBounds
  \/ \E s \in DOMAIN sockets, to \in Users : \E minted \in MintedIds :
        handleCallRequest(s, to, NoCallId, minted) /\ InMediaBounds
  \/ \E s \in DOMAIN sockets, c \in CallIds : handleRecordingStart(s, c) /\ InMediaBounds
  \/ \E s \in DOMAIN sockets, c \in CallIds : handleCallEnd(s, NoUser, c)

SpecCollision == Init /\ [][NextCollision]_vars

\* The relay of negotiation messages between connections that come and go,
\* with every `from` and payload a client may write.
NextRelay ==
  \/ \E u \in Users : Connect(u) /\ InBounds
  \/ \E s \in DOMAIN sockets : SocketNotOpen(s)
  \/ \E s \in DOMAIN sockets : SocketClose(s)
  \/ \E s \in DOMAIN sockets, to \in Targets, c \in NamedCalls, from \in Targets,
        p \in Payloads, type \in {"offer", "answer", "ice-candidate"} :
        forwardSignaling(s, type, to, c, from, p)

SpecRelay == Init /\ [][NextRelay]_vars

\* Signalling alone: the steps of Next but those of recording, audio and
\* detection, which no signalling handler reads. Every behaviour of
\* SpecSignal is a behaviour of Spec.
NextSignal ==
  \/ \E u \in Users : Connect(u) /\ InBounds
  \/ \E token \in {NoToken, BadToken} : ConnectRefused(token)
  \/ \E s \in DOMAIN sockets : SocketNotOpen(s)
  \/ \E s \in DOMAIN sockets : SocketClose(s)
  \/ \E s \in DOMAIN sockets, to \in Targets, c \in {NoCallId, ClientCallId} :
        handleCallRequest(s, to, c, nextCallId) /\ InBounds
  \/ \E s \in DOMAIN sockets, to \in Targets, c \in NamedCalls : handleCallAccept(s, to, c)
  \/ \E s \in DOMAIN sockets, to \in Targets, c \in NamedCalls : handleCallReject(s, to, c)
  \/ \E s \in DOMAIN sockets, to \in Targets, c \in NamedCalls : handleCallEnd(s, to, c)
  \/ \E s \in DOMAIN sockets, to \in Targets, c \in NamedCalls,
        type \in {"offer", "answer", "ice-candidate"} :
        forwardSignaling(s, type, to, c, sockets[s].userId, NoPayload)
  \/ \E s \in DOMAIN sockets : handleMessageDropped(s)

SpecSignal == Init /\ [][NextSignal]_vars

\* =================================================================== claims
\* the most recent registration of an identity: its newest accepted connection
LatestRegistration(u) ==
  IF \E s \in DOMAIN sockets : sockets[s].userId = u
    THEN CHOOSE s \in DOMAIN sockets :
           sockets[s].userId = u /\ \A r \in DOMAIN sockets : sockets[r].userId = u => r <= s
    ELSE NoSocket

\* C1: an identity is reported online exactly when its most recent
\* registration has not been removed (by that connection's own close, or by
\* the cleanup of its stale handle), whatever closes of older connections of
\* the same identity arrive in between.
C1_OnlineIffLatestRegistrationLive ==
  \A u \in Users :
    isUserOnline(u) <=>
      (LatestRegistration(u) # NoSocket /\ ~sockets[LatestRegistration(u)].removed)

\* C8: at most one live connection per identity: in every state at most one
\* channel of an identity is open with its messages handled under that identity.
C8_OneLiveConnectionPerIdentity ==
  \A u \in Users : Cardinality({s \in DOMAIN sockets : sockets[s].userId = u /\ Idle(s)}) <= 1

\* C9: every CallSession has callerId different from calleeId.
C9_CallerIsNotCallee ==
  \A c \in DOMAIN activeCalls : activeCalls[c].callerId # activeCalls[c].calleeId

\* C10: once no stopRecording is pending, the recorder holds an active
\* recording for a callId, or the detector a timer for it, only if the
\* CallSession of that callId exists with recordingActive = true.
C10_RecordingStateOnlyWhileSession ==
  stops = {} =>
    \A c \in CallIds :
      (activeRecordings[c] # 0 \/ processingIntervals[c] # NoUser)
        => (c \in DOMAIN activeCalls /\ activeCalls[c].recording)

\* ---- call-request
Rejects == SelectSeq(out, LAMBDA m : m.type = "call-reject")

OfflineRequest == last.type = "call-request" /\ last.target \in {"absent", "stale"}

\* C2: a call-request whose target is offline (not registered, or registered
\* with a channel that is not open) yields exactly one call-reject to the
\* sender, with reason "User is offline", creates no CallSession and sends
\* nothing to the target. Stated for a sender whose own connection is the one
\* registered for its identity.
C2_OfflineRequestRejectedOnce ==
  (OfflineRequest /\ last.sender = "open" /\ ClientsGet(clients, last.userId) = last.socket) =>
    /\ Len(Rejects) = 1
    /\ \A i \in DOMAIN Rejects :
         Rejects[i].to = last.userId /\ Rejects[i].reason = "User is offline"
    /\ DOMAIN activeCalls = last.sessions
    /\ \A i \in DOMAIN out : out[i].to = last.to => last.to = last.userId

\* C2 as amended: no CallSession is created and nothing is sent to the
\* target; one call-reject from 'system' is addressed to the sender's
\* identity and reaches that identity's registered connection exactly when it
\* is open; the reason is "User is offline" for a target that is not
\* registered and "User appears offline" for a registered target whose
\* channel is not open, whose entry is then removed.
C2_OfflineRequestRejected ==
  OfflineRequest =>
    /\ DOMAIN activeCalls = last.sessions
    /\ \A i \in DOMAIN out : out[i].to # last.to
    /\ Len(Rejects) = IF last.sender = "open" THEN 1 ELSE 0
    /\ \A i \in DOMAIN Rejects :
         /\ Rejects[i].to = last.userId
         /\ Rejects[i].from = System
         /\ Rejects[i].socket = ClientsGet(clients, last.userId)
         /\ Rejects[i].reason = IF last.target = "absent" THEN "User is offline"
                                                        ELSE "User appears offline"
    /\ last.target = "stale" => ~isUserOnline(last.to)

C2_StaleTargetRejected ==
  OfflineRequest /\ last.target = "stale" /\ Len(Rejects) = 1

\* C3: a call-request from S to an online target T creates exactly one
\* CallSession, with callerId = S, calleeId = T and recordingActive = false,
\* and forwards exactly one call-request to T, with from = S and the callId
\* under which the session is stored.
C3_OnlineRequestCreatesOneSession ==
  (last.type = "call-request" /\ last.target = "open") =>
    \E c \in DOMAIN activeCalls \ last.sessions :
      /\ DOMAIN activeCalls = last.sessions \cup {c}
      /\ activeCalls[c] = [callerId |-> last.userId, calleeId |-> last.to, recording |-> FALSE]
      /\ Len(out) = 1
      /\ out[1].type = "call-request"
      /\ out[1].to = last.to
      /\ out[1].socket = ClientsGet(clients, last.to)
      /\ out[1].from = last.userId
      /\ out[1].callId = c

C3_RequestForwarded ==
  /\ last.type = "call-request" /\ last.target = "open" /\ last.userId # last.to
  /\ Len(out) = 1 /\ out[1].type = "call-request"

\* ---- recording-start
StartOnSession == last.type = "recording-start" /\ last.call.exists

\* the party the recording analyses: the callee for the caller, else the caller
RemoteOfSender ==
  IF last.userId = last.call.callerId THEN last.call.calleeId ELSE last.call.callerId

\* recording-start notifications of the session sent to an identity by the last step
Notifications(u) ==
  Len(SelectSeq(out, LAMBDA m : m.type = "recording-start" /\ m.to = u
                                /\ m.callId = last.callId /\ m.from = System))

Roles(u) == (IF last.call.callerId = u THEN 1 ELSE 0) + (IF last.call.calleeId = u THEN 1 ELSE 0)

RecordingStarted ==
  /\ last.callId \in DOMAIN activeCalls
  /\ activeCalls[last.callId].recording
  /\ activeRecordings[last.callId] # 0
  /\ recs[activeRecordings[last.callId]].callId = last.callId
  /\ recs[activeRecordings[last.callId]].speakerId = RemoteOfSender
  /\ recs[activeRecordings[last.callId]].pending = <<>>
  /\ processingIntervals[last.callId] = RemoteOfSender

\* C4: recording-start for an existing session sets recordingActive, starts
\* recorder and detector for (session, counterpart of the sender) and delivers
\* a recording-start notification to callerId and to calleeId, exactly once
\* each. Stated for sessions of two distinct identities.
C4_StartNotifiesBothOnce ==
  (StartOnSession /\ last.call.callerId # last.call.calleeId) =>
    /\ RecordingStarted
    /\ Notifications(last.call.callerId) = 1
    /\ Notifications(last.call.calleeId) = 1

\* C4 as amended: recording-start for an existing session sets
\* recordingActive, starts recorder and detector for the session and the
\* callee (sender is the caller) or the caller (any other sender), and sends
\* one notification addressed to callerId and one to calleeId; each is
\* delivered once if the addressee's registered connection is open and is
\* dropped otherwise; nothing else is sent.
C4_StartNotifiesReachableParties ==
  StartOnSession =>
    /\ RecordingStarted
    /\ \A u \in Users : Notifications(u) = IF SnapTarget(u) = "open" THEN Roles(u) ELSE 0
    /\ \A i \in DOMAIN out : out[i].type = "recording-start" /\ out[i].callId = last.callId

C4_StartWithOnePartyOffline ==
  /\ StartOnSession
  /\ last.call.callerId # last.call.calleeId
  /\ Len(out) = 1

\* ---- audio
Ordered(log) ==
  \A i, j \in DOMAIN log : (i < j /\ log[i].callId = log[j].callId) => log[i].id < log[j].id

\* C5: for the frames submitted for one callId while its recording is active,
\* the recorder processes the chunks, and the detector is invoked, in the
\* order of submission.
C5_ChunksInSubmissionOrder == Ordered(writeLog) /\ Ordered(detLog)

\* ---- call-end
EndOf == last.type = "call-end" /\ last.callId # NoCallId

\* C6, the state after call-end naming X: no CallSession X, and if X was
\* recording the detector has no timer for X and the recorder has no entry
\* for X or is stopping it.
C6_EndRemovesAndStops ==
  EndOf =>
    /\ last.callId \notin DOMAIN activeCalls
    /\ last.call.recording =>
         /\ processingIntervals[last.callId] = NoUser
         /\ \/ activeRecordings[last.callId] = 0
            \/ \E p \in stops : p.rec = activeRecordings[last.callId]

\* C6, idempotence: a call-end naming a callId that has no session changes
\* no session, recorder or detector state.
C6_EndAgainChangesNothing ==
  (EndOf' /\ ~last'.call.exists) =>
    UNCHANGED <<activeCalls, recs, activeRecordings, stops, processingIntervals>>

\* C6: call-end naming callId X always leaves no CallSession for X and, if X
\* was recording, stops the recorder and the detector for X; a second call-end
\* for the same callId changes no session, recorder or detector state.
C6_CallEnd == [](C6_EndRemovesAndStops) /\ [][C6_EndAgainChangesNothing]_vars

C6_EndWhileRecording ==
  EndOf /\ last.call.exists /\ last.call.recording /\ stops # {}

\* ---- detection results
\* C7: a detection result {callId X, speakerId P} for an existing session X
\* is delivered at most once, to the counterpart of P in X, and never to P.
C7_ResultToCounterpartOnly ==
  (last.type = "result" /\ last.call.exists) =>
    /\ Len(out) <= 1
    /\ \A i \in DOMAIN out :
         /\ out[i].to # last.speakerId
         /\ out[i].to \in {last.call.callerId, last.call.calleeId}

\* ---- forwards to an unreachable target
ForwardedTypes == {"call-accept", "call-reject", "call-end", "offer", "answer", "ice-candidate"}

TargetUnreachable == last.type \in ForwardedTypes /\ last.target # "open"

Malformed ==
  \/ last.type = "dropped"
  \/ last.type \in ForwardedTypes \cup {"call-request"} /\ last.to = NoUser

\* C12: a step that handles a malformed envelope changes neither the
\* registry nor the session table, sends nothing to any connection and leaves
\* the sender's connection open.
C12_MalformedDroppedWithoutEffect ==
  [][Malformed' =>
       /\ clients' = clients
       /\ activeCalls' = activeCalls
       /\ out' = <<>>
       /\ sockets' = sockets]_vars

\* ---- refused connections
Refused == last.type = "connection-refused"

\* a refused connection closes with 4001 exactly when it presented no token,
\* else with 4002, and the step registers nothing, creates no session,
\* accepts no connection and sends nothing
C13_RefusalLeavesNoTrace ==
  Refused' =>
    /\ last'.code \in {4001, 4002}
    /\ last'.code = 4001 <=> last'.token = NoToken
    /\ clients' = clients
    /\ activeCalls' = activeCalls
    /\ sockets' = sockets
    /\ out' = <<>>

\* every message, frame and close handled arrived on a connection that was
\* accepted with a verified identity
C13_HandledOnAcceptedConnection ==
  last.socket # NoSocket => (last.socket \in DOMAIN sockets /\ last.userId \in Users)

\* C13: a connection without a credential is closed with 4001, one with an
\* invalid credential with 4002; in both cases no registry entry and no
\* session is created, no presence broadcast is sent, and no message of that
\* connection is processed.
C13_RefusedConnection == [](C13_HandledOnAcceptedConnection) /\ [][C13_RefusalLeavesNoTrace]_vars

C13_RefusedWhileOthersOnline ==
  /\ Refused /\ last.token = BadToken /\ last.code = 4002
  /\ \E i \in DOMAIN clients : IsOpen(sockets, clients[i].socket)

\* ---- presence
\* the steps that change the registry: a registration, the removal on
\* close, the cleanup of a stale handle by a call-request
RegistryMutation ==
  \/ last.type \in {"connection", "close"}
  \/ last.type = "call-request" /\ last.target = "stale"

Presence(u) == SelectSeq(out, LAMBDA m : m.type = "online-users" /\ m.to = u)

\* C14: after a registry mutation every identity in the registry whose
\* registered channel is open is sent exactly one online-users message, on
\* that channel, listing the identities now in the registry but the
\* recipient; no other identity is sent one.
C14_PresenceAfterRegistryMutation ==
  RegistryMutation =>
    \A u \in Users :
      /\ Len(Presence(u)) = IF SnapTarget(u) = "open" THEN 1 ELSE 0
      /\ \A i \in DOMAIN Presence(u) :
           /\ Presence(u)[i].socket = ClientsGet(clients, u)
           /\ Presence(u)[i].from = System
           /\ Presence(u)[i].users = ClientKeys(clients) \ {u}

C14_CleanupBroadcast ==
  /\ last.type = "call-request" /\ last.target = "stale"
  /\ \E i \in DOMAIN out : out[i].type = "online-users" /\ out[i].users = {}

\* ---- close
\* the close of a connection removes its identity from the registry, sends
\* the presence message to every identity whose registered channel is open
\* and leaves the session table as it is
C15_CloseKeepsSessions ==
  (last'.type = "close") =>
    /\ last'.userId \notin ClientKeys(clients')
    /\ \A i \in DOMAIN clients' :
         sockets'[clients'[i].socket].readyState = "OPEN" =>
           \E j \in DOMAIN out' :
             out'[j].type = "online-users" /\ out'[j].socket = clients'[i].socket
    /\ activeCalls' = activeCalls

\* a session stays, with its participants, through every step but a call-end
\* or call-reject that names it, and with its recordingActive through every
\* step but those and a recording-start or recording-stop that names it
C15_SessionStaysUntilEndOrReject ==
  \A c \in DOMAIN activeCalls :
    \/ last'.type \in {"call-end", "call-reject"} /\ last'.callId = c
    \/ /\ c \in DOMAIN activeCalls'
       /\ activeCalls'[c].callerId = activeCalls[c].callerId
       /\ activeCalls'[c].calleeId = activeCalls[c].calleeId
       /\ \/ activeCalls'[c].recording = activeCalls[c].recording
          \/ last'.type \in {"recording-start", "recording-stop"} /\ last'.callId = c

C16_CallerMintedCallId ==
  (last.type = "call-request" /\ last.target = "open" /\ last.callId # NoCallId) =>
    /\ last.callId \in DOMAIN activeCalls
    /\ DOMAIN activeCalls = last.sessions \cup {last.callId}
    /\ \A i \in DOMAIN out : out[i].type = "call-request" => out[i].callId = last.callId

\* ---- call-accept
\* C17: a call-accept is forwarded only if the CallSession its callId names
\* exists, and then to the caller of that session; one that names no
\* existing session is forwarded to no one. Stated for an accept addressed
\* to another identity than the sender's.
C17_AcceptForwardedToCallerOfSession ==
  (last.type = "call-accept" /\ last.to # last.userId) =>
    IF last.call.exists
      THEN \A i \in DOMAIN out : out[i].to = last.call.callerId
      ELSE out = <<>>

\* ---- lifecycle
\* C18: a session whose request was never accepted is not ended by
\* call-end: after a call-end naming it the session is still there.
C18_RequestedNotEndedByCallEnd ==
  (EndOf /\ last.call.exists /\ ~last.call.accepted) => last.callId \in DOMAIN activeCalls

\* C18 as amended: per callId the session is created by a call-request and
\* removed by the first call-end or call-reject that names it, accepted or
\* not; no other step removes a session, and a call-accept changes none.
C18_EndOrRejectFreesSession ==
  /\ (last.type \in {"call-end", "call-reject"} /\ last.callId # NoCallId) =>
       DOMAIN activeCalls = last.sessions \ {last.callId}
  /\ (last.type \notin {"call-end", "call-reject", "call-request"}) =>
       DOMAIN activeCalls = last.sessions
  /\ last.type = "call-request" => last.sessions \subseteq DOMAIN activeCalls

C18_RequestedSessionEnded ==
  /\ EndOf /\ last.call.exists /\ ~last.call.accepted
  /\ last.call.callerId # last.call.calleeId
  /\ last.userId = last.call.callerId

\* ---- relay of negotiation messages
Relayed == last.type \in {"offer", "answer", "ice-candidate"} /\ last.target = "open"

C20_ResultWithoutSessionDropped ==
  (last.type = "result" /\ ~last.call.exists) => out = <<>>

C20_ResultAfterSessionRemoved ==
  /\ last.type = "result" /\ ~last.call.exists
  /\ \E i \in DOMAIN clients : IsOpen(sockets, clients[i].socket)

\* ---- recording-stop
StopOnSession == last.type = "recording-stop" /\ last.call.exists

\* recording-stop notifications of the session sent to an identity by the last step
StopNotifications(u) ==
  Len(SelectSeq(out, LAMBDA m : m.type = "recording-stop" /\ m.to = u
                                /\ m.callId = last.callId /\ m.from = System))

\* the session is marked not recording, the detector has no timer for it and
\* the recorder has no entry for it or is stopping the one it has
RecordingStopped ==
  /\ last.callId \in DOMAIN activeCalls
  /\ ~activeCalls[last.callId].recording
  /\ activeCalls[last.callId].callerId = last.call.callerId
  /\ activeCalls[last.callId].calleeId = last.call.calleeId
  /\ processingIntervals[last.callId] = NoUser
  /\ \/ activeRecordings[last.callId] = 0
     \/ \E p \in stops : p.rec = activeRecordings[last.callId]

\* a recording-stop that names no session changes nothing and sends nothing
C21_StopWithoutSessionChangesNothing ==
  (last'.type = "recording-stop" /\ ~last'.call.exists) =>
    /\ UNCHANGED <<sockets, clients, activeCalls, recs, activeRecordings, stops,
                   processingIntervals>>
    /\ out' = <<>>

\* C21: recording-stop for an existing session sets recordingActive = false,
\* stops recorder and detector for it and delivers a recording-stop
\* notification to callerId and to calleeId, exactly once each. Stated for
\* sessions of two distinct identities.
C21_StopNotifiesBothOnce ==
  (StopOnSession /\ last.call.callerId # last.call.calleeId) =>
    /\ RecordingStopped
    /\ StopNotifications(last.call.callerId) = 1
    /\ StopNotifications(last.call.calleeId) = 1

\* the state after a recording-stop for an existing session, and what it sent
C21_StopNotifiesReachable ==
  StopOnSession =>
    /\ RecordingStopped
    /\ \A u \in Users : StopNotifications(u) = IF SnapTarget(u) = "open" THEN Roles(u) ELSE 0
    /\ \A i \in DOMAIN out : out[i].type = "recording-stop" /\ out[i].callId = last.callId

\* C21 as amended: recording-stop for an existing session sets
\* recordingActive = false, stops the detector and stops the recorder (at
\* once, or as soon as the chunks already chained are written), and sends one
\* notification addressed to callerId and one to calleeId; each is delivered
\* once if the addressee's registered connection is open and is dropped
\* otherwise; nothing else is sent. A recording-stop for a missing session
\* changes nothing and notifies no one.
C21_StopNotifiesReachableParties ==
  [](C21_StopNotifiesReachable) /\ [][C21_StopWithoutSessionChangesNothing]_vars

C21_StopWithOnePartyOffline ==
  /\ StopOnSession
  /\ last.call.recording
  /\ last.call.callerId # last.call.calleeId
  /\ Len(out) = 1
  /\ stops # {}

\* ---- binary frames
\* some session has the sender of the frame as caller or callee and is recording
SenderRecords ==
  \E c \in DOMAIN activeCalls :
    activeCalls[c].recording /\ last'.userId \in {activeCalls[c].callerId, activeCalls[c].calleeId}

\* a frame is handed to the recorder and the detector only by the step that
\* handles it, and only if its sender is a party of a recording session
C22_DispatchOnlyWhileRecording ==
  (nextFrame' # nextFrame \/ detLog' # detLog) => (last'.type = "audio" /\ SenderRecords)

\* a frame whose sender is no party of a recording session changes nothing
\* and sends nothing
C22_OtherFrameDropped ==
  (last'.type = "audio" /\ ~SenderRecords) =>
    /\ UNCHANGED <<sockets, clients, activeCalls, nextCallId, recs, activeRecordings, stops,
                   processingIntervals, nextFrame, writeLog, detLog>>
    /\ out' = <<>>

\* C22: a binary frame from S reaches neither the recorder nor the detector
\* unless some CallSession has S as caller or callee and recordingActive =
\* true; otherwise it is dropped without reply or state change.
C22_FrameNeedsRecordingSession ==
  [][C22_DispatchOnlyWhileRecording /\ C22_OtherFrameDropped]_vars

C22_FrameOfIdleParticipantDropped ==
  /\ last.type = "audio"
  /\ \E c \in DOMAIN activeCalls :
       ~activeCalls[c].recording /\ last.userId \in {activeCalls[c].callerId, activeCalls[c].calleeId}
  /\ \A c \in DOMAIN activeCalls :
       activeCalls[c].recording => last.userId \notin {activeCalls[c].callerId, activeCalls[c].calleeId}
  /\ \E c \in CallIds : activeRecordings[c] # 0

\* ---- attribution of frames
\* the frame the last step dispatched, if it dispatched one
Dispatched == last.type = "audio" /\ AudioMatches(last.userId) # {}

\* C23: for every frame a participant S of a recording session X submits,
\* the detector is invoked with (X, counterpart of S), and the recording of
\* X the frame is written to is the one labelled with that same speaker.
C23_FrameAttributedToCounterpart ==
  /\ Dispatched =>
       LET d == detLog[Len(detLog)]
           X == activeCalls[d.callId]
       IN d.speakerId = IF X.callerId = last.userId THEN X.calleeId ELSE X.callerId
  /\ \A i \in DOMAIN writeLog, j \in DOMAIN detLog :
       writeLog[i].id = detLog[j].id =>
         /\ writeLog[i].callId = detLog[j].callId
         /\ recs[writeLog[i].rec].speakerId = detLog[j].speakerId

\* ---- failures of the recorder
\* C24: a failure of the recorder on one frame neither blocks nor drops the
\* frames of the same session submitted after it; in particular those that
\* are written are written in the order of submission.
C24_FramesAfterFailureInOrder ==
  \A k \in DOMAIN detLog :
    detLog[k].throws =>
      \A i, j \in DOMAIN writeLog :
        ( /\ i < j
          /\ writeLog[i].callId = detLog[k].callId
          /\ writeLog[j].callId = detLog[k].callId
          /\ writeLog[i].id > detLog[k].id
          /\ writeLog[j].id > detLog[k].id ) => writeLog[i].id < writeLog[j].id

\* ---- one chunk at a time
\* C25: at no time are two chunk-processing steps (a chunk written, its
\* conversion running) in progress for the same callId.
C25_OneChunkInProgressPerCall ==
  \A c \in CallIds :
    Cardinality({r \in DOMAIN recs : recs[r].callId = c /\ recs[r].running}) <= 1

\* ---- duplicate callId
\* C26: a call-request never touches a session that exists: if the callId
\* it would be stored under is already in the session table the request is
\* dropped and the existing session keeps its callerId, calleeId and
\* recordingActive.
C26_RequestKeepsExistingSessions ==
  [][(last'.type = "call-request") =>
       \A c \in DOMAIN activeCalls :
         c \in DOMAIN activeCalls' /\ activeCalls'[c] = activeCalls[c]]_vars

\* ---- stale handles
\* C27: an identity is reported online, by isUserOnline and in the lists of
\* the presence broadcast, iff the registry has an entry for it whose
\* channel is open.
C27_OnlineIffChannelOpen ==
  /\ \A u \in Users : isUserOnline(u) <=> SnapTarget(u) = "open"
  /\ \A i \in DOMAIN out :
       out[i].type = "online-users" => \A u \in out[i].users : SnapTarget(u) = "open"

\* ---------------------------------------------- room-based signaling server
\* the branch of 'create or join' taken for a room of numClients members
Reply_NeverFull(numClients) ==
  IF numClients = 0 THEN "created" ELSE "joined"

Reply(numClients) ==
  IF numClients = 0 THEN "created"
  ELSE IF numClients = 1 THEN "joined"
  ELSE "full"

\* an emit: the event, the sockets it is delivered to, its argument
Emit(event, to, room) == [event |-> event, to |-> to, room |-> room]

\* io.on('connection'): a socket with a fresh id, member of its own room
ioConnection(s) ==
  /\ s \notin ioUsed
  /\ ioUsed' = ioUsed \cup {s}
  /\ ioSockets' = ioSockets \cup {s}
  /\ rooms' = [rooms EXCEPT ![OwnRoom(s)] = {s}]
  /\ ioLast' = [type |-> "connection", socket |-> s, room |-> NoRoom, numClients |-> 0]
  /\ ioOut' = <<>>
  /\ UNCHANGED <<RelayVars, ChainVars, ClientVars, WsVars, DetVars>>

\* socket.on('create or join', room)
createOrJoin(s, room) ==
  /\ s \in ioSockets
  /\ LET clients_ == rooms[room]
         numClients == Cardinality(clients_)
         joined == [rooms EXCEPT ![room] = @ \cup {s}]      \* socket.join(room)
     IN /\ ioLast' = [type |-> "create or join", socket |-> s, room |-> room,
                      numClients |-> numClients]
        /\ CASE Reply(numClients) = "created" ->
                  /\ rooms' = joined
                  /\ ioOut' = <<Emit("created", {s}, room)>>
             [] Reply(numClients) = "joined" ->
                  /\ rooms' = joined
                  /\ ioOut' = <<Emit("join", joined[room], room), Emit("joined", {s}, room)>>
             [] OTHER ->
                  /\ rooms' = rooms
                  /\ ioOut' = <<Emit("full", {s}, room)>>
  /\ UNCHANGED <<ioSockets, ioUsed, RelayVars, ChainVars, ClientVars, WsVars, DetVars>>

\* socket.on('disconnect'): socket.io has taken the socket out of every room
ioDisconnect(s) ==
  /\ s \in ioSockets
  /\ ioSockets' = ioSockets \ {s}
  /\ rooms' = [r \in RoomKeys |-> rooms[r] \ {s}]
  /\ ioLast' = [type |-> "disconnect", socket |-> s, room |-> NoRoom, numClients |-> 0]
  /\ ioOut' = <<>>
  /\ UNCHANGED <<ioUsed, RelayVars, ChainVars, ClientVars, WsVars, DetVars>>

\* socket.on('message', {room, type, data}): socket.to(room).emit reaches
\* every member of the room but the emitting socket
ioMessage(s, room) ==
  /\ s \in ioSockets
  /\ ioLast' = [type |-> "message", socket |-> s, room |-> room,
                 numClients |-> Cardinality(rooms[room])]
  /\ ioOut' = <<Emit("message", rooms[room] \ {s}, room)>>
  /\ UNCHANGED <<ioSockets, ioUsed, rooms, RelayVars, ChainVars, ClientVars, WsVars, DetVars>>

NextRooms ==
  \/ \E s \in SocketIds : ioConnection(s)
  \/ \E s \in SocketIds, room \in RoomKeys : createOrJoin(s, room)
  \/ \E s \in SocketIds, room \in RoomKeys : ioMessage(s, room)
  \/ \E s \in SocketIds : ioDisconnect(s)

SpecRooms == Init /\ [][NextRooms]_vars

\* the emits `o` hold `event`, sent to the requester alone
Replied(o, s, event) ==
  \E i \in DOMAIN o : o[i].event = event /\ o[i].to = {s}

\* the requester's answer goes by the members the room has when it asks
C28_AnswerByOccupancy ==
  (ioLast'.type = "create or join") =>
     LET s == ioLast'.socket
         room == ioLast'.room
         n == Cardinality(rooms[room])
     IN /\ n = 0 => Replied(ioOut', s, "created") /\ rooms' = [rooms EXCEPT ![room] = {s}]
        /\ n = 1 => Replied(ioOut', s, "joined") /\ rooms' = [rooms EXCEPT ![room] = @ \cup {s}]
        /\ n >= 2 => Replied(ioOut', s, "full") /\ rooms' = rooms

C28_AtMostTwoMembers ==
  \A r \in RoomKeys : Cardinality(rooms[r]) <= 2

\* C28: after any sequence of connections, 'create or join' requests and
\* disconnects no room has more than two member sockets; a request for a
\* room without members is answered 'created' and the requester becomes its
\* member, for a room of one member 'joined' and the requester is added, for
\* a room of two members 'full' and the membership stays as it was.
C28_RoomsHoldTwo ==
  [](C28_AtMostTwoMembers) /\ [][C28_AnswerByOccupancy]_vars

\* a third socket was refused by a room two others are in
C28_ThirdSocketRefused ==
  /\ ioLast.type = "create or join"
  /\ Replied(ioOut, ioLast.socket, "full")
  /\ Cardinality(rooms[ioLast.room]) = 2
  /\ ioLast.socket \notin rooms[ioLast.room]
  /\ ioLast.room \in RoomNames

\* the sockets the last 'message' event was forwarded to
C39_Recipients ==
  UNION {ioOut[i].to : i \in {j \in DOMAIN ioOut : ioOut[j].event = "message"}}

\* C39: a 'message' event a socket sends for a room is forwarded to the
\* other members of that room and to no one else: not to the sender, not to
\* a socket outside the room, and to nobody when the sender has not joined
\* the room (stated for the rooms clients name).
C39_ForwardedWithinSendersRoom ==
  (ioLast.type = "message" /\ ioLast.room \in RoomNames) =>
     /\ ioLast.socket \notin C39_Recipients
     /\ C39_Recipients \subseteq rooms[ioLast.room]
     /\ ioLast.socket \notin rooms[ioLast.room] => C39_Recipients = {}

\* ------------------------------------------------ ModelRegistry contract
\* models[modelId].owner == address(0) is the test for "not yet registered"
Registered_Never(m) == FALSE

Registered(m) == models[m].owner # ZeroAddress

\* status == ACTIVE || status == REVOKED
ValidStatus_Any(status) == TRUE

ValidStatus(status) == status = ACTIVE \/ status = REVOKED

\* a transaction as the history records it
Tx(fn, sender, modelId, status, wmSpecHash, uri, reverted) ==
  [fn |-> fn, sender |-> sender, modelId |-> modelId, status |-> status,
   wmSpecHash |-> wmSpecHash, uri |-> uri, reverted |-> reverted]

\* registerModel(modelId, wmSpecHash, uri) sent by `sender`; a failed
\* require reverts the transaction.  uint64(block.timestamp) is the
\* timestamp itself for every timestamp below 2^64.
registerModel(sender, modelId, wmSpecHash, uri) ==
  /\ IF Registered(modelId)
       THEN /\ models' = models
            /\ txLast' = Tx("registerModel", sender, modelId, 0, wmSpecHash, uri, TRUE)
       ELSE /\ models' = [models EXCEPT ![modelId] =
                            [owner |-> sender, status |-> ACTIVE, wmSpecHash |-> wmSpecHash,
                             uri |-> uri, createdAt |-> blockTimestamp]]
            /\ txLast' = Tx("registerModel", sender, modelId, 0, wmSpecHash, uri, FALSE)
  /\ UNCHANGED <<blockTimestamp, RelayVars, RoomVars, ClientVars, WsVars, DetVars>>

\* setStatus(modelId, status) sent by `sender`
setStatus(sender, modelId, status) ==
  /\ IF models[modelId].owner = sender /\ ValidStatus(status)
       THEN /\ models' = [models EXCEPT ![modelId].status = status]
            /\ txLast' = Tx("setStatus", sender, modelId, status, 0, "", FALSE)
       ELSE /\ models' = models
            /\ txLast' = Tx("setStatus", sender, modelId, status, 0, "", TRUE)
  /\ UNCHANGED <<blockTimestamp, RelayVars, RoomVars, ClientVars, WsVars, DetVars>>

\* the next block: block.timestamp grows
NewBlock ==
  /\ blockTimestamp < MaxTime
  /\ blockTimestamp' = blockTimestamp + 1
  /\ UNCHANGED <<models, txLast, RelayVars, RoomVars, ClientVars, WsVars, DetVars>>

NextChain ==
  \/ \E sender \in Addrs, modelId \in ModelIds, h \in Hashes, uri \in Uris :
        registerModel(sender, modelId, h, uri)
  \/ \E sender \in Addrs, modelId \in ModelIds, status \in StatusArgs :
        setStatus(sender, modelId, status)
  \/ NewBlock

SpecChain == Init /\ [][NextChain]_vars

\* owner, wmSpecHash, uri and createdAt of a record
Fixed(model) == <<model.owner, model.wmSpecHash, model.uri, model.createdAt>>

C29_RegisterStep ==
  (txLast'.fn = "registerModel" /\ txLast' # txLast) =>
     LET m == txLast'.modelId
     IN IF models[m].owner # ZeroAddress
          THEN txLast'.reverted /\ models' = models
          ELSE ~txLast'.reverted /\ models'[m].owner = txLast'.sender

C29_FixedFieldsKept ==
  \A m \in ModelIds : models[m].owner # ZeroAddress => Fixed(models'[m]) = Fixed(models[m])

\* C29: registerModel on a registered modelId reverts and leaves every
\* record as it was, registerModel on an unregistered one records the
\* caller as owner, and no transaction changes the owner, wmSpecHash, uri or
\* createdAt of a registered model.
C29_RegisteredOnce ==
  [][C29_RegisterStep /\ C29_FixedFieldsKept]_vars

\* another account tried to register a modelId that has an owner
C29_SecondRegistrationReverted ==
  /\ txLast.fn = "registerModel"
  /\ txLast.reverted
  /\ models[txLast.modelId].owner # txLast.sender
  /\ models[txLast.modelId].wmSpecHash # txLast.wmSpecHash
  /\ models[txLast.modelId].createdAt < blockTimestamp

C30_SetStatusStep ==
  (txLast'.fn = "setStatus" /\ txLast' # txLast) =>
     LET m == txLast'.modelId
         ok == /\ models[m].owner = txLast'.sender
               /\ txLast'.status \in {1, 2}
     IN /\ txLast'.reverted <=> ~ok
        /\ models' = IF ok THEN [models EXCEPT ![m].status = txLast'.status] ELSE models

C30_StatusOfRegistered ==
  \A m \in ModelIds :
     IF models[m].owner # ZeroAddress THEN models[m].status \in {1, 2}
                                      ELSE models[m] = NoModel

\* C30: setStatus takes effect exactly when its sender is the model's owner
\* and the status is 1 or 2, and then changes that model's status only; every
\* other setStatus reverts and changes nothing.  A registered model's status
\* is 1 or 2 and a modelId without owner has the record of a key never
\* written.
C30_OnlyOwnerSetsStatus ==
  [](C30_StatusOfRegistered) /\ [][C30_SetStatusStep]_vars

\* setStatus with a status that is neither ACTIVE nor REVOKED, sent by the owner
C30_OwnerSentBadStatus ==
  /\ txLast.fn = "setStatus"
  /\ txLast.reverted
  /\ models[txLast.modelId].owner = txLast.sender
  /\ txLast.status \notin {1, 2}
  /\ models[txLast.modelId].status = 2

\* ---- recording-stop racing recording-start
\* C31: when no stopRecording is suspended, a session whose recordingActive
\* is true has an active recording in the recorder.
\* (Stated for sessions between two identities.)
C31_RecordingSessionHasRecorder ==
  stops = {} =>
    \A c \in DOMAIN activeCalls :
       activeCalls[c].recording /\ activeCalls[c].callerId # activeCalls[c].calleeId
         => activeRecordings[c] # 0

\* ---- messages of an identity that is no party to the call
\* a third identity of the auth store
Bystander == NumUsers + 1

InPartyBounds == Within(PartySockets, MaxCalls, MediaRecs, MaxFrames)

\* Two identities call each other and record; every connected identity, the
\* third included, sends call-reject, call-end, recording-start and
\* recording-stop naming the call.
NextBystander ==
  \/ \E u \in Users \cup {Bystander} : Connect(u) /\ InPartyBounds
  \/ \E s \in DOMAIN sockets : \E to \in Users \ {sockets[s].userId} :
        sockets[s].userId \in Users /\ handleCallRequest(s, to, NoCallId, nextCallId)
                                    /\ InPartyBounds
  \/ \E s \in DOMAIN sockets, to \in Targets, c \in CallIds : handleCallReject(s, to, c)
  \/ \E s \in DOMAIN sockets, to \in Targets, c \in CallIds : handleCallEnd(s, to, c)
  \/ \E s \in DOMAIN sockets, c \in CallIds : handleRecordingStart(s, c) /\ InPartyBounds
  \/ \E s \in DOMAIN sockets, c \in CallIds : handleRecordingStop(s, c)
  \/ \E c \in CallIds : DetectorTick(c)

SpecBystander == Init /\ [][NextBystander]_vars

CallControl == {"call-end", "call-reject", "recording-start", "recording-stop"}

\* the step handles a call-control message naming an existing session, sent
\* by an identity that is neither its callerId nor its calleeId
FromNonParticipant ==
  /\ last'.type \in CallControl
  /\ last'.callId \in DOMAIN activeCalls
  /\ last'.userId \notin {activeCalls[last'.callId].callerId, activeCalls[last'.callId].calleeId}

\* C32: a call-end, call-reject, recording-start or recording-stop naming
\* session X and sent by an identity that is neither X.callerId nor
\* X.calleeId leaves X, the recorder's entry and the detector's timer for X as
\* they were, and sends nothing to X's participants.
C32_NonParticipantChangesNothing ==
  [][FromNonParticipant =>
       LET x == last'.callId
       IN /\ x \in DOMAIN activeCalls' /\ activeCalls'[x] = activeCalls[x]
          /\ activeRecordings'[x] = activeRecordings[x]
          /\ processingIntervals'[x] = processingIntervals[x]
          /\ \A i \in DOMAIN out' :
               out'[i].to \notin {activeCalls[x].callerId, activeCalls[x].calleeId}]_vars

\* ---- an identity in two calls
InOverlapBounds == Within(MediaSockets, MaxCalls + ExtraCalls, MediaRecs, MaxFrames)

\* Two identities, call-requests one after another (nothing ends a call),
\* recording-start on any of the sessions, audio frames.
NextOverlap ==
  \/ \E u \in Users : Connect(u) /\ InOverlapBounds
  \/ \E s \in DOMAIN sockets : \E to \in Users \ {sockets[s].userId} :
        handleCallRequest(s, to, NoCallId, nextCallId) /\ InOverlapBounds
  \/ \E s \in DOMAIN sockets, c \in RecorderKeys : handleRecordingStart(s, c) /\ InOverlapBounds
  \/ \E s \in DOMAIN sockets, small \in BOOLEAN :
        handleAudioData(s, small, FALSE) /\ InOverlapBounds
  \/ \E r \in DOMAIN recs : ExecDone(r)

SpecOverlap == Init /\ [][NextOverlap]_vars

\* the sessions with recordingActive = true that identity u is a party of
RecordingSessionsOf(u) ==
  {c \in DOMAIN activeCalls :
     activeCalls[c].recording /\ u \in {activeCalls[c].callerId, activeCalls[c].calleeId}}

\* C33: in every reachable state an identity is a participant of at most
\* one CallSession with recordingActive = true.
C33_OneRecordingSessionPerIdentity ==
  \A u \in Users : Cardinality(RecordingSessionsOf(u)) <= 1

\* ---- recipient of detection results
\* C34: every detection result delivered for a call goes to the identity
\* whose recording-start started the detector run that produced it.
C34_ResultToRecordingInitiator ==
  last.type = "result" =>
    \A i \in DOMAIN out :
       out[i].type = "detection-result" => out[i].to = startedBy[last.callId]

\* --------------------------------------------------------- browser client
\* The clients' part of the state, passed through the operators below;
\* `sent` collects what the operation hands to wsService.send, in order.
ClientState ==
  [call |-> callState, incoming |-> incomingCall, rtc |-> rtc, resets |-> resets,
   negotiated |-> negotiated, sent |-> <<>>]

\* wsService.send(message) on an open socket
wsSend(cs, u, type, to, c) ==
  [cs EXCEPT !.sent = Append(@, [user |-> u, type |-> type, to |-> to, callId |-> c,
                                 negotiated |-> cs.negotiated[u]])]

\* webrtcService.startRecording()
rtcStartRecording(cs, u) ==
  LET on == [cs EXCEPT !.rtc[u].isRecording = TRUE]
  IN IF cs.rtc[u].currentCallId # NoCallId
       THEN wsSend(on, u, "recording-start", cs.rtc[u].remoteUserId, cs.rtc[u].currentCallId)
       ELSE on

\* webrtcService.stopRecording()
rtcStopRecording(cs, u) ==
  IF ~cs.rtc[u].isRecording THEN cs
  ELSE LET off == [cs EXCEPT !.rtc[u].isRecording = FALSE]
       IN IF cs.rtc[u].currentCallId # NoCallId
            THEN wsSend(off, u, "recording-stop", cs.rtc[u].remoteUserId,
                        cs.rtc[u].currentCallId)
            ELSE off

\* webrtcService.endCall(): the call is over for this client
rtcEndCall(cs, u) ==
  LET stopped == rtcStopRecording([cs EXCEPT !.negotiated[u] = FALSE], u)
  IN [stopped EXCEPT !.rtc[u].currentCallId = NoCallId, !.rtc[u].remoteUserId = NoUser]

\* setState(status: 'ended'), then setTimeout(reset to idle, 2000)
EndedThenReset(cs, u, stopsRecording) ==
  [cs EXCEPT !.call[u].status = "ended",
             !.call[u].isRecording = IF stopsRecording THEN FALSE ELSE @,
             !.resets[u] = Append(@, FALSE)]

\* every pending reset timer of u now belongs to an earlier call
Outdated(cs, u) == [cs EXCEPT !.resets[u] = [i \in DOMAIN @ |-> TRUE]]

\* initiateCall(targetUser), k being `call_${Date.now()}`
initiateCall(cs, u, target, k) ==
  wsSend([Outdated(cs, u) EXCEPT
            !.call[u] = [status |-> "calling", callId |-> k, remoteUser |-> target,
                         isRecording |-> FALSE]],
         u, "call-request", target, k)

\* acceptCall()
acceptCall(cs, u) ==
  LET inc == cs.incoming[u]
      set == [Outdated(cs, u) EXCEPT
                !.rtc[u].currentCallId = inc.callId,
                !.call[u] = [status |-> "connected", callId |-> inc.callId,
                             remoteUser |-> inc.caller, isRecording |-> FALSE]]
  IN [wsSend(set, u, "call-accept", inc.caller, inc.callId) EXCEPT !.incoming[u] = NoIncoming]

\* rejectCall()
rejectCall(cs, u) ==
  [wsSend(cs, u, "call-reject", cs.incoming[u].caller, cs.incoming[u].callId)
     EXCEPT !.incoming[u] = NoIncoming]

\* endCall()
endCall(cs, u) ==
  LET told == IF cs.call[u].remoteUser # NoUser /\ cs.call[u].callId # NoCallId
                THEN wsSend(cs, u, "call-end", cs.call[u].remoteUser, cs.call[u].callId)
                ELSE cs
  IN EndedThenReset(rtcEndCall(told, u), u, TRUE)

\* toggleRecording()
toggleRecording(cs, u) ==
  IF cs.rtc[u].isRecording THEN rtcStopRecording(cs, u) ELSE rtcStartRecording(cs, u)

\* webrtcService.createOffer(remoteUserId, callId); the offer is sent once
\* the peer connection has produced it
createOffer(cs, u, remote, c) ==
  wsSend([cs EXCEPT !.rtc[u].currentCallId = c, !.rtc[u].remoteUserId = remote],
         u, "offer", remote, c)

\* webrtcService.handleOffer(message); the answer is sent once the peer
\* connection has produced it
handleOffer(cs, u, m) ==
  [wsSend([cs EXCEPT !.rtc[u].currentCallId = m.callId, !.rtc[u].remoteUserId = m.from],
          u, "answer", m.from, m.callId)
     EXCEPT !.negotiated[u] = TRUE]

\* the handler CallProvider registers with wsService.onMessage
onMessage(cs, u, m) ==
  CASE m.type = "call-request" ->
         [cs EXCEPT !.incoming[u] = [callId |-> m.callId, caller |-> m.from]]
    [] m.type = "call-accept" ->
         LET connected == [cs EXCEPT !.call[u].status = "connected"]
         IN IF cs.call[u].callId # NoCallId /\ cs.call[u].remoteUser # NoUser
              THEN createOffer(connected, u, cs.call[u].remoteUser, cs.call[u].callId)
              ELSE connected
    [] m.type = "call-reject" -> EndedThenReset(cs, u, FALSE)
    [] m.type = "call-end" -> EndedThenReset(rtcEndCall(cs, u), u, TRUE)
    [] m.type = "offer" -> handleOffer(cs, u, m)
    [] m.type = "answer" -> [cs EXCEPT !.negotiated[u] = TRUE]
    [] m.type = "recording-start" -> [cs EXCEPT !.call[u].isRecording = TRUE]
    [] m.type = "recording-stop" -> [cs EXCEPT !.call[u].isRecording = FALSE]
    [] OTHER -> cs

\* the reset timeout fires: setState(status: 'idle', callId: null, remoteUser: null)
resetFires(cs, u) ==
  [cs EXCEPT !.call[u] = [@ EXCEPT !.status = "idle", !.callId = NoCallId,
                                   !.remoteUser = NoUser],
             !.resets[u] = Tail(@)]

\* the socket events of the messages msgs[i..], each handled by the client
\* of the user it was sent to
RECURSIVE Received(_, _, _)
Received(cs, msgs, i) ==
  IF i > Len(msgs) THEN cs
  ELSE Received(onMessage(cs, msgs[i].to, msgs[i]), msgs, i + 1)

SetClient(cs, pending) ==
  /\ callState' = cs.call
  /\ incomingCall' = cs.incoming
  /\ rtc' = cs.rtc
  /\ resets' = cs.resets
  /\ negotiated' = cs.negotiated
  /\ wire' = pending \o cs.sent

\* a step taken in a browser: the relay sees nothing of it yet
InBrowser(u) ==
  /\ last' = [Event("client", NoSocket, NoUser, NoCallId) EXCEPT !.userId = u]
  /\ out' = <<>>
  /\ UNCHANGED <<sockets, clients, activeCalls, nextCallId, accepted, startedBy, RecorderVars,
                 processingIntervals, nextFrame, detLog, RoomVars, ChainVars, WsVars, DetVars>>

\* the user's socket to the relay is open and nothing is in transmission
Online(u) == IsOpen(sockets, ClientsGet(clients, u)) /\ wire = <<>>

\* wsService.connect(token): the relay accepts the connection
ClientConnects(u) ==
  /\ wire = <<>>
  /\ ClientsGet(clients, u) = NoSocket
  /\ Connect(u)

\* the user clicks Call on a listed user
ClicksCall(u, target) ==
  /\ Online(u)
  /\ callState[u].status \in {"idle", "ended"}
  /\ dialed < MaxDials
  /\ dialed' = dialed + 1
  /\ SetClient(initiateCall(ClientState, u, target, ClientCallId + dialed), <<>>)
  /\ InBrowser(u)

\* the user clicks Accept in the incoming-call modal
ClicksAccept(u) ==
  /\ Online(u)
  /\ incomingCall[u] # NoIncoming
  /\ SetClient(acceptCall(ClientState, u), <<>>)
  /\ InBrowser(u)
  /\ UNCHANGED dialed

\* the user clicks Decline
ClicksReject(u) ==
  /\ Online(u)
  /\ incomingCall[u] # NoIncoming
  /\ SetClient(rejectCall(ClientState, u), <<>>)
  /\ InBrowser(u)
  /\ UNCHANGED dialed

\* the user clicks End Call on the call page
ClicksEnd(u) ==
  /\ Online(u)
  /\ callState[u].status \in {"calling", "connected"}
  /\ Len(resets[u]) < MaxResets
  /\ SetClient(endCall(ClientState, u), <<>>)
  /\ InBrowser(u)
  /\ UNCHANGED dialed

\* the user clicks the record button, shown while connected
ClicksRecord(u) ==
  /\ Online(u)
  /\ callState[u].status = "connected"
  /\ SetClient(toggleRecording(ClientState, u), <<>>)
  /\ InBrowser(u)
  /\ UNCHANGED dialed

\* a reset timeout of the user's client fires
ResetTimer(u) ==
  /\ wire = <<>>
  /\ resets[u] # <<>>
  /\ SetClient(resetFires(ClientState, u), <<>>)
  /\ InBrowser(u)
  /\ UNCHANGED dialed

\* the relay's message listener runs for the oldest text in transmission
RelayHandles ==
  /\ wire # <<>>
  /\ last.type = "client"
  /\ LET m == Head(wire)
         s == ClientsGet(clients, m.user)
     IN CASE m.type = "call-request" -> handleCallRequest(s, m.to, m.callId, nextCallId)
          [] m.type = "call-accept" -> handleCallAccept(s, m.to, m.callId)
          [] m.type = "call-reject" -> handleCallReject(s, m.to, m.callId)
          [] m.type = "call-end" -> handleCallEnd(s, m.to, m.callId)
          [] m.type = "recording-start" -> handleRecordingStart(s, m.callId)
          [] m.type = "recording-stop" -> handleRecordingStop(s, m.callId)
          [] OTHER -> forwardSignaling(s, m.type, m.to, m.callId, NoUser, "'v=0'")

\* what the relay sent arrives at the browsers; the text it handled has left
\* the wire
ClientsReceive ==
  /\ wire # <<>>
  /\ last.type # "client"
  /\ LET senders == {out[i].to : i \in DOMAIN out}
     IN \A u \in senders : Len(resets[u]) < MaxResets
  /\ SetClient(Received(ClientState, out, 1), Tail(wire))
  /\ InBrowser(NoUser)
  /\ UNCHANGED dialed

InClientBounds == Within(MediaSockets, MaxCalls + ExtraCalls, MediaRecs, MaxFrames)

NextClient ==
  \/ \E u \in Users : ClientConnects(u) /\ InClientBounds
  \/ \E u \in Users : \E target \in Users \ {u} : ClicksCall(u, target)
  \/ \E u \in Users : ClicksAccept(u)
  \/ \E u \in Users : ClicksReject(u)
  \/ \E u \in Users : ClicksEnd(u)
  \/ \E u \in Users : ClicksRecord(u)
  \/ \E u \in Users : ResetTimer(u)
  \/ RelayHandles /\ InClientBounds
  \/ ClientsReceive

SpecClient == Init /\ [][NextClient]_vars

\* ---- callIds of the shipped client
CallScoped == {"recording-start", "recording-stop", "call-end"}

\* C35: in a call set up by initiateCall, acceptCall and offer/answer, every
\* recording-start, recording-stop and call-end a client then sends names a
\* session the relay has stored.
C35_ClientNamesStoredSession ==
  (wire # <<>> /\ last.type \in CallScoped /\ Head(wire).negotiated) => last.call.exists

\* ---- the delayed reset of the client
\* the oldest reset timeout of u fires in this step, and a call was initiated
\* or accepted after it was set
StaleResetFires(u) ==
  /\ resets[u] # <<>>
  /\ resets'[u] = Tail(resets[u])
  /\ Head(resets[u])

\* C36: a reset timeout that fires after a new call was initiated or
\* accepted, while that call is ringing or connected, leaves the client's
\* status, callId and remoteUser as they are.
C36_StaleResetKeepsNewCall ==
  [][\A u \in Users :
       (StaleResetFires(u) /\ callState[u].status \in {"calling", "connected"})
          => callState'[u] = callState[u]]_vars

\* ------------------------------------------- WebSocketService of a browser
maxReconnectAttempts == 5

\* createConnection(): without a token nothing; otherwise a new WebSocket,
\* CONNECTING, becomes this.socket
createConnection(ws) ==
  IF ~ws.token THEN ws
  ELSE [ws EXCEPT !.sockets = Append(@, "CONNECTING"), !.socket = Len(ws.sockets) + 1]

\* this.socket && this.socket.readyState === WebSocket.OPEN
AlreadyConnected(ws) == ws.socket # NoSocket /\ ws.sockets[ws.socket] = "OPEN"

WsState == [sockets |-> wsSockets, socket |-> wsSocket, token |-> wsToken]

SetWs(ws) ==
  /\ wsSockets' = ws.sockets
  /\ wsSocket' = ws.socket
  /\ wsToken' = ws.token

\* connect(token)
wsConnect ==
  /\ SetWs(IF AlreadyConnected(WsState) THEN WsState
           ELSE createConnection([WsState EXCEPT !.token = TRUE]))
  /\ UNCHANGED <<reconnectAttempts, wsTimers, RelayVars, RoomVars, ChainVars, ClientVars, DetVars>>

\* disconnect(): close() leaves the socket CLOSING until its close event
wsDisconnect ==
  /\ SetWs([WsState EXCEPT
              !.sockets = IF wsSocket # NoSocket /\ wsSockets[wsSocket] # "CLOSED"
                            THEN [@ EXCEPT ![wsSocket] = "CLOSING"] ELSE @,
              !.socket = NoSocket,
              !.token = FALSE])
  /\ UNCHANGED <<reconnectAttempts, wsTimers, RelayVars, RoomVars, ChainVars, ClientVars, DetVars>>

\* socket.onopen of the i-th WebSocket
wsOnOpen(i) ==
  /\ i \in DOMAIN wsSockets
  /\ wsSockets[i] = "CONNECTING"
  /\ wsSockets' = [wsSockets EXCEPT ![i] = "OPEN"]
  /\ reconnectAttempts' = 0
  /\ UNCHANGED <<wsSocket, wsToken, wsTimers, RelayVars, RoomVars, ChainVars, ClientVars, DetVars>>

\* socket.onclose of the i-th WebSocket (closed by either side, or never
\* connected): attemptReconnect()
wsOnClose(i) ==
  /\ i \in DOMAIN wsSockets
  /\ wsSockets[i] # "CLOSED"
  /\ wsSockets' = [wsSockets EXCEPT ![i] = "CLOSED"]
  /\ IF reconnectAttempts < maxReconnectAttempts
       THEN /\ reconnectAttempts' = reconnectAttempts + 1
            /\ wsTimers' = wsTimers + 1
       ELSE UNCHANGED <<reconnectAttempts, wsTimers>>
  /\ UNCHANGED <<wsSocket, wsToken, RelayVars, RoomVars, ChainVars, ClientVars, DetVars>>

\* the timeout set by attemptReconnect fires: createConnection()
wsReconnectTimer ==
  /\ wsTimers > 0
  /\ wsTimers' = wsTimers - 1
  /\ SetWs(createConnection(WsState))
  /\ UNCHANGED <<reconnectAttempts, RelayVars, RoomVars, ChainVars, ClientVars, DetVars>>

InWsBounds == Len(wsSockets') <= WsSockets

NextWs ==
  \/ wsConnect /\ InWsBounds
  \/ wsDisconnect
  \/ \E i \in DOMAIN wsSockets : wsOnOpen(i)
  \/ \E i \in DOMAIN wsSockets : wsOnClose(i)
  \/ wsReconnectTimer /\ InWsBounds

SpecWs == Init /\ [][NextWs]_vars

\* the WebSockets that are connecting or open
Live == {i \in DOMAIN wsSockets : wsSockets[i] \in {"CONNECTING", "OPEN"}}

\* C37: the client never has two sockets that are connecting or open at
\* the same time.
C37_OneLiveSocket == Cardinality(Live) <= 1

\* ---------------------------------------- the detector's timers, one by one
\* The relay model keeps processingIntervals as the Map only; here every
\* setInterval timer is an object of its own, live until it is cleared.
DetState == [map |-> detMap, live |-> detLive, made |-> detMade]

\* a clearInterval that clears nothing
clearInterval_Kept(live, id) == live

\* clearInterval(interval)
clearInterval(live, id) == {t \in live : t.id # id}

\* stopProcessing(callId), timers included
stopProcessingTimer(d, c) ==
  IF d.map[c] = 0 THEN d
  ELSE [d EXCEPT !.live = clearInterval(@, d.map[c]), !.map[c] = 0]

\* startProcessing(callId, speakerId), timers included
startProcessingTimer(d, c, speaker) ==
  LET s == stopProcessingTimer(d, c)
      id == s.made + 1
  IN [s EXCEPT !.live = @ \cup {[id |-> id, callId |-> c, speakerId |-> speaker]},
               !.map[c] = id,
               !.made = id]

SetDet(d) ==
  /\ detMap' = d.map
  /\ detLive' = d.live
  /\ detMade' = d.made

NotDetector == <<RelayVars, RoomVars, ChainVars, ClientVars, WsVars>>

\* voiceDetector.startProcessing(callId, speakerId)
DetStart(c, speaker) ==
  /\ detMade < MaxTimers
  /\ SetDet(startProcessingTimer(DetState, c, speaker))
  /\ detStopped' = detStopped \ {c}
  /\ detLast' = [op |-> "start", callId |-> c, speakerId |-> speaker]
  /\ UNCHANGED NotDetector

\* voiceDetector.stopProcessing(callId)
DetStop(c) ==
  /\ SetDet(stopProcessingTimer(DetState, c))
  /\ detStopped' = detStopped \cup {c}
  /\ detLast' = [op |-> "stop", callId |-> c, speakerId |-> NoUser]
  /\ UNCHANGED NotDetector

\* the callback of a live timer runs: emit('result', {callId, speakerId, ...})
DetResult(t) ==
  /\ t \in detLive
  /\ detLast' = [op |-> "result", callId |-> t.callId, speakerId |-> t.speakerId]
  /\ UNCHANGED <<detMap, detLive, detMade, detStopped, NotDetector>>

NextDetector ==
  \/ \E c \in RecorderKeys, speaker \in Users : DetStart(c, speaker)
  \/ \E c \in RecorderKeys : DetStop(c)
  \/ \E t \in detLive : DetResult(t)

SpecDetector == Init /\ [][NextDetector]_vars

\* C38: at most one timer that emits results exists per callId, and no
\* result is emitted for a callId that was stopped and not started since.
C38_DetectorToleratesRepeats ==
  /\ \A c \in RecorderKeys : Cardinality({t \in detLive : t.callId = c}) <= 1
  /\ detLast.op = "result" => detLast.callId \notin detStopped

\* a callId started twice, stopped, and another callId's timer emitting
C38_RestartedThenStopped ==
  /\ detLast.op = "result"
  /\ detStopped # {}
  /\ detMade = MaxTimers
  /\ Cardinality(detLive) = 1

====
